---- MODULE Spec2Model ----
(***************************************************************************)
(* Host IRQ domain manager of Xvisor (vmm_host_irqdomain.c) and its SBI    *)
(* extension registry and ecall dispatcher (cpu_vcpu_sbi.h).               *)
(*                                                                         *)
(* The specifications share the state:                                     *)
(*   Spec       the handlers that change state (add, remove,               *)
(*              create_mapping, dispose_mapping), each one atomic action   *)
(*              whose arguments, result and external calls are kept in     *)
(*              `last`; the external allocator and the heap answer         *)
(*              nondeterministically (success or failure).                 *)
(*   SpecQuery  the same handlers, unobserved, plus the read-only          *)
(*              handlers (to_hwirq, find_mapping, get), observed in `last`.*)
(*   SpecConc   several cores run the handlers that take the registry lock *)
(*              statement by statement.                                    *)
(*   SpecConcFair  SpecConc with every core scheduled fairly.              *)
(*   SpecUse    the cores also use the domain pointers get and match gave  *)
(*              them: to_hwirq, find_mapping, create_mapping.              *)
(*   SpecSbi    the SBI extension table, find_extension and ecall.         *)
(* unsigned int / int are modelled with Width bits instead of 32.          *)
(***************************************************************************)
EXTENDS Integers, Sequences, FiniteSets, TLC

\* ------------------------------------------------------------------ bounds
Width == 4          \* bits of unsigned int / int in the model
MaxDomains == 2     \* domain records the heap can hold at one time
MaxExt == 1         \* host IRQ numbers the external allocator can hand out
NCores == 2         \* cores of SpecConc
MaxExtId == 3       \* SBI extension IDs are 0..MaxExtId
MaxExts == 2        \* entries of the SBI extension table

\* --------------------------------------------------------- program constants
CONFIG_HOST_IRQ_COUNT == 3
VMM_OK == 0
VMM_EFAIL == -1
VMM_ENOTAVAIL == -3
NULL == 0

Mod == 2 ^ Width
Half == Mod \div 2

\* value of an expression of type unsigned int
U(x) == x % Mod
\* conversion of an unsigned int to int (return statements of int functions)
ToInt(x) == IF U(x) >= Half THEN U(x) - Mod ELSE U(x)

Ids == 1..MaxDomains
Cores == 1..NCores

\* the fields vmm_host_irqdomain_add assigns before linking the record
AllFields == {"head", "base", "count", "end", "host_data", "of_node", "ops"}

\* a record as vmm_zalloc returns it
ZeroDomain == [base |-> 0, count |-> 0, end |-> 0, set |-> {}]

VARIABLES
  heap,      \* heap[id]: the struct vmm_host_irqdomain at address id
  live,      \* addresses handed out by vmm_zalloc and not yet freed
  domains,   \* idctrl.domains: addresses of the linked records, list order
  mapped,    \* host IRQ numbers for which vmm_host_irq_get is non-NULL
  regions,   \* host IRQ numbers handed out by vmm_host_irqext_alloc_region
  last,      \* the last handler run to completion: arguments, result, calls
  lock,      \* idctrl.lock: [writer: core or 0, readers: set of cores]
  pc,        \* SpecConc: pc[c] statement core c executes next
  loc,       \* SpecConc: loc[c] arguments and locals of core c's handler
  sbi        \* SpecSbi: the extension table, the trapped vCPU, the last call

vars == <<heap, live, domains, mapped, regions, last, lock, pc, loc, sbi>>
irqvars == <<heap, live, domains, mapped, regions, last, lock, pc, loc>>
concvars == <<lock, pc, loc>>

\* ------------------------------------------------------- external collaborators
\* error values the external allocator may return
ExtErrors == {VMM_EFAIL}
\* results of vmm_host_irqext_dispose_mapping
DisposeResults == {VMM_OK} \cup ExtErrors

\* vmm_host_irq_get(n) != NULL
vmm_host_irq_get(m, n) == n \in m

Range(lo, hi) == {n \in 0..(Mod - 1) : lo <= n /\ n < hi}

\* the extended host IRQs, numbered from CONFIG_HOST_IRQ_COUNT upwards
ExtIrqs == CONFIG_HOST_IRQ_COUNT..(CONFIG_HOST_IRQ_COUNT + MaxExt - 1)

\* vmm_host_irqext_alloc_region(size): the bases it may return, each the start
\* of size extended host IRQs it has not handed out before
AllocRegionBases(size) ==
  {b \in ExtIrqs : /\ Range(b, b + size) \subseteq ExtIrqs
                   /\ Range(b, b + size) \cap regions = {}}

\* ------------------------------------------------------------ pure functions
\* to_hwirq with the upper bound excluded
to_hwirq_excl(d, hirq) ==
  IF hirq < d.base \/ hirq >= d.end
    THEN VMM_ENOTAVAIL
    ELSE ToInt(hirq - d.base)

\* vmm_host_irqdomain_to_hwirq
to_hwirq(d, hirq) ==
  IF hirq < d.base \/ hirq > d.end
    THEN VMM_ENOTAVAIL
    ELSE ToInt(hirq - d.base)

\* find_mapping that never looks the host IRQ up
find_mapping_never(d, hwirq, m) == -1

\* vmm_host_irqdomain_find_mapping
find_mapping(d, hwirq, m) ==
  IF hwirq > d.count
    THEN -1
    ELSE IF vmm_host_irq_get(m, U(d.base + hwirq))
           THEN ToInt(d.base + hwirq)
           ELSE -1

\* the test with both bounds included
get_match_incl(d, hirq) == (hirq >= d.base) /\ (hirq <= d.end)

\* the test of the loop of vmm_host_irqdomain_get
get_match(d, hirq) == (hirq > d.base) /\ (hirq < d.end)

\* list_for_each_entry of vmm_host_irqdomain_get from position i on
RECURSIVE get_scan(_, _, _, _)
get_scan(h, list, i, hirq) ==
  IF i > Len(list) THEN NULL
  ELSE IF get_match(h[list[i]], hirq) THEN list[i]
  ELSE get_scan(h, list, i + 1, hirq)

\* vmm_host_irqdomain_get without the locking
irqdomain_get(h, list, hirq) == get_scan(h, list, 1, hirq)

\* the capacity test of vmm_host_irqdomain_add
add_rejects(base, size) ==
  (base >= 0) /\
  ((CONFIG_HOST_IRQ_COUNT <= base) \/ (CONFIG_HOST_IRQ_COUNT <= U(base + size)))

\* the record vmm_host_irqdomain_add links
add_record(pos, size) ==
  [base |-> U(pos), count |-> size, end |-> U(U(pos) + size), set |-> AllFields]

\* list_del
list_del(list, id) == SelectSeq(list, LAMBDA x : x # id)

\* ------------------------------------------------------------------- inputs
Bases == -1..CONFIG_HOST_IRQ_COUNT
Sizes == {1, 2, Mod - 1}
Hirqs == 0..(CONFIG_HOST_IRQ_COUNT + MaxExt + 1)
Hwirqs == 0..(MaxExt + 1)

NoCall == <<>>
\* one call of an external collaborator, as recorded in last.calls
Call(name, arg, res) == [name |-> name, arg |-> arg, res |-> res]

\* `last` before any handler ran; each handler overwrites the fields it uses:
\*   op, dom, a, b  the handler and its arguments
\*   ret            its return value
\*   calls          the calls it made to the heap and the external allocator
\*   pre            whether vmm_host_irq_get(base + hwirq) was non-NULL before
\*   delta          the host IRQ numbers whose mapping the handler changed
Idle == [op |-> "none", dom |-> NULL, a |-> 0, b |-> 0, ret |-> 0,
         calls |-> NoCall, pre |-> FALSE, delta |-> {}]

\* an unobserved handler leaves no record
Note(obs, r) == IF obs THEN r ELSE Idle

ZeroLoc == [op |-> "none", dom |-> NULL, a |-> 0, b |-> 0, i |-> 0, ret |-> 0]

\* the trapped vCPU's registers the dispatcher reads and writes
ZeroVcpu == [a0 |-> 0, a1 |-> 0, a6 |-> 0, a7 |-> 0, sepc |-> 0]

\* the SBI state before the extension table is set up; after a call:
\*   op, extid   the routine called and the extension ID it was given
\*   ret         its return value (find: index of the entry, NULL if none)
\*   pre, vcpu   the vCPU's registers before and after an ecall
\*   handled     index of the entry whose handler the ecall invoked, or NULL
\*   trap        whether the ecall redirected a trap to the guest
SbiInit == [table |-> <<>>, booted |-> FALSE, op |-> "none", extid |-> 0,
            ret |-> 0, pre |-> ZeroVcpu, vcpu |-> ZeroVcpu,
            handled |-> NULL, trap |-> FALSE]

Init ==
  /\ sbi = SbiInit
  /\ heap = [i \in Ids |-> ZeroDomain]
  /\ live = {}
  /\ domains = <<>>
  /\ mapped = {}
  /\ regions = {}
  /\ last = Idle
  /\ lock = [writer |-> 0, readers |-> {}]
  /\ pc = [c \in Cores |-> "idle"]
  /\ loc = [c \in Cores |-> ZeroLoc]

ListSet == {domains[i] : i \in 1..Len(domains)}

\* ----------------------------------------------------- read-only handlers
vmm_host_irqdomain_to_hwirq ==
  \E id \in ListSet, hirq \in Hirqs :
    /\ last' = [Idle EXCEPT !.op = "to_hwirq", !.dom = id, !.a = hirq,
                            !.ret = to_hwirq(heap[id], hirq)]
    /\ UNCHANGED <<heap, live, domains, mapped, regions, concvars, sbi>>

vmm_host_irqdomain_find_mapping ==
  \E id \in ListSet, hwirq \in Hwirqs :
    /\ last' = [Idle EXCEPT !.op = "find_mapping", !.dom = id, !.a = hwirq,
                            !.ret = find_mapping(heap[id], hwirq, mapped)]
    /\ UNCHANGED <<heap, live, domains, mapped, regions, concvars, sbi>>

vmm_host_irqdomain_get ==
  \E hirq \in Hirqs :
    /\ last' = [Idle EXCEPT !.op = "get", !.a = hirq,
                            !.ret = irqdomain_get(heap, domains, hirq)]
    /\ UNCHANGED <<heap, live, domains, mapped, regions, concvars, sbi>>

\* -------------------------------------------------- state-changing handlers
\* vmm_host_irqext_create_mapping(n): its possible results
CreateResults(n) == {ToInt(n)} \cup ExtErrors

\* a return statement that hides the allocator's error
create_return_notavail(d, hwirq, hirq) ==
  IF hirq < 0 THEN VMM_ENOTAVAIL ELSE ToInt(d.base + hwirq)

\* the return statement of vmm_host_irqdomain_create_mapping
create_return(d, hwirq, hirq) == IF hirq < 0 THEN hirq ELSE ToInt(d.base + hwirq)

vmm_host_irqdomain_create_mapping(obs) ==
  \E id \in ListSet \cup {NULL}, hwirq \in Hwirqs :
    LET d == IF id = NULL THEN ZeroDomain ELSE heap[id]
        n == U(d.base + hwirq)
        found == find_mapping(d, hwirq, mapped)
        me == [Idle EXCEPT !.op = "create_mapping", !.dom = id, !.a = hwirq,
                           !.pre = (id # NULL /\ vmm_host_irq_get(mapped, n))]
    IN
    IF id = NULL \/ hwirq > d.count
      THEN /\ last' = Note(obs, [me EXCEPT !.ret = VMM_ENOTAVAIL])
           /\ UNCHANGED <<heap, live, domains, mapped, regions, concvars, sbi>>
    ELSE IF found >= 0
      THEN /\ last' = Note(obs, [me EXCEPT !.ret = found])
           /\ UNCHANGED <<heap, live, domains, mapped, regions, concvars, sbi>>
    ELSE \E hirq \in CreateResults(n) :
           /\ mapped' = IF hirq \in ExtErrors THEN mapped ELSE mapped \cup {n}
           /\ last' = Note(obs, [me EXCEPT
                         !.ret = create_return(d, hwirq, hirq),
                         !.calls = <<Call("create_mapping", n, hirq)>>,
                         !.delta = mapped' \ mapped])
           /\ UNCHANGED <<heap, live, domains, regions, concvars, sbi>>

vmm_host_irqdomain_dispose_mapping(obs) ==
  \E hirq \in Hirqs :
    LET domain == irqdomain_get(heap, domains, hirq)
        me == [Idle EXCEPT !.op = "dispose_mapping", !.a = hirq, !.dom = domain,
                           !.pre = vmm_host_irq_get(mapped, hirq)]
    IN
    IF domain = NULL
      THEN /\ last' = Note(obs, [me EXCEPT !.ret = VMM_ENOTAVAIL])
           /\ UNCHANGED <<heap, live, domains, mapped, regions, concvars, sbi>>
      ELSE \E r \in DisposeResults :
             /\ mapped' = IF r = VMM_OK THEN mapped \ {hirq} ELSE mapped
             /\ last' = Note(obs, [me EXCEPT !.ret = r,
                           !.calls = <<Call("dispose_mapping", hirq, r)>>,
                           !.delta = mapped \ mapped'])
             /\ UNCHANGED <<heap, live, domains, regions, concvars, sbi>>

\* a failure path of vmm_host_irqdomain_add that keeps the record
add_unwind_leak(l, newdomain) == l

\* lines 186-190: no region for an auto-assigned base, the record is freed
add_unwind(l, newdomain) == l \ {newdomain}

\* vmm_zalloc: the address it returns, NULL when it fails
ZallocResults ==
  {NULL} \cup {i \in Ids \ live : \A j \in Ids \ live : i <= j}

\* vmm_host_irqext_alloc_region(size): a base, or a negative error
AllocRegionResults(size) == AllocRegionBases(size) \cup ExtErrors

vmm_host_irqdomain_add(obs) ==
  \E base \in Bases, size \in Sizes :
    LET me == [Idle EXCEPT !.op = "add", !.a = base, !.b = size] IN
    IF add_rejects(base, size)
      THEN /\ last' = Note(obs, [me EXCEPT !.ret = NULL])
           /\ UNCHANGED <<heap, live, domains, mapped, regions, concvars, sbi>>
      ELSE \E newdomain \in ZallocResults :
        IF newdomain = NULL
          THEN /\ last' = Note(obs, [me EXCEPT !.ret = NULL,
                                     !.calls = <<Call("zalloc", 0, NULL)>>])
               /\ UNCHANGED <<heap, live, domains, mapped, regions, concvars, sbi>>
        ELSE \E pos \in (IF base < 0 THEN AllocRegionResults(size) ELSE {base}) :
          LET ext == IF base < 0 THEN <<Call("alloc_region", size, pos)>>
                     ELSE NoCall IN
          IF base < 0 /\ pos < 0
            THEN /\ last' = Note(obs, [me EXCEPT !.ret = NULL,
                       !.calls = <<Call("zalloc", 0, newdomain)>> \o ext
                                 \o <<Call("free", newdomain, 0)>>])
                 /\ live' = add_unwind(live \cup {newdomain}, newdomain)
                 /\ UNCHANGED <<heap, domains, mapped, regions, concvars, sbi>>
            ELSE /\ heap' = [heap EXCEPT ![newdomain] = add_record(pos, size)]
                 /\ live' = live \cup {newdomain}
                 /\ domains' = Append(domains, newdomain)
                 /\ regions' = IF base < 0 THEN regions \cup Range(pos, pos + size)
                               ELSE regions
                 /\ last' = Note(obs, [me EXCEPT !.ret = newdomain,
                       !.dom = newdomain,
                       !.calls = <<Call("zalloc", 0, newdomain)>> \o ext])
                 /\ UNCHANGED <<mapped, concvars, sbi>>

\* the slots the loop of vmm_host_irqdomain_remove visits
remove_slots(d) == Range(d.base, d.end)

vmm_host_irqdomain_remove(obs) ==
  \E id \in ListSet \cup {NULL} :
    IF id = NULL
      THEN /\ last' = Note(obs, [Idle EXCEPT !.op = "remove"])
           /\ UNCHANGED <<heap, live, domains, mapped, regions, concvars, sbi>>
      ELSE LET d == heap[id]
               slots == remove_slots(d)
           IN \E res \in [slots -> DisposeResults] :
             /\ domains' = list_del(domains, id)
             /\ mapped' = mapped \ {n \in slots : res[n] = VMM_OK}
             /\ heap' = [heap EXCEPT ![id] = ZeroDomain]
             /\ live' = live \ {id}
             /\ last' = Note(obs, [Idle EXCEPT !.op = "remove", !.dom = id,
                           !.a = d.base, !.b = d.count,
                           !.delta = mapped \ mapped',
                           !.calls = [i \in 1..Cardinality(slots) |->
                              Call("dispose_mapping", d.base + i - 1,
                                   res[d.base + i - 1])]
                             \o <<Call("free", id, 0)>>])
             /\ UNCHANGED <<regions, concvars, sbi>>

Next ==
  \/ vmm_host_irqdomain_create_mapping(TRUE)
  \/ vmm_host_irqdomain_dispose_mapping(TRUE)
  \/ vmm_host_irqdomain_add(TRUE)
  \/ vmm_host_irqdomain_remove(TRUE)

Spec == Init /\ [][Next]_vars

NextQuery ==
  \/ vmm_host_irqdomain_to_hwirq
  \/ vmm_host_irqdomain_find_mapping
  \/ vmm_host_irqdomain_get
  \/ vmm_host_irqdomain_create_mapping(FALSE)
  \/ vmm_host_irqdomain_dispose_mapping(FALSE)
  \/ vmm_host_irqdomain_add(FALSE)
  \/ vmm_host_irqdomain_remove(FALSE)

SpecQuery == Init /\ [][NextQuery]_vars
\* =================================================================== SpecConc
\* Each core runs one handler at a time (the lock primitives disable local
\* interrupts); pc[c] names the source line core c executes next.
ConcBases == {-1, 0, CONFIG_HOST_IRQ_COUNT}
ConcSizes == {1, 2}
ConcHirqs == 0..(MaxExt + 1)

\* vmm_read_lock_irqsave_lite / vmm_read_unlock_irqrestore_lite
read_lock(c) ==
  lock.writer = 0 /\ lock' = [lock EXCEPT !.readers = @ \cup {c}]
read_unlock(c) == lock' = [lock EXCEPT !.readers = @ \ {c}]
\* vmm_write_lock_irqsave_lite / vmm_write_unlock_irqrestore_lite
write_lock(c) ==
  lock.writer = 0 /\ lock.readers = {} /\ lock' = [lock EXCEPT !.writer = c]
write_unlock(c) == lock' = [lock EXCEPT !.writer = 0]

Goto(c, label) == pc' = [pc EXCEPT ![c] = label]
\* return to the caller: the locals die, the arguments and the result are kept
Return(c, ret) ==
  /\ pc' = [pc EXCEPT ![c] = "idle"]
  /\ loc' = [loc EXCEPT ![c] = [ZeroLoc EXCEPT !.op = loc[c].op,
                                   !.a = loc[c].a, !.b = loc[c].b, !.ret = ret]]

\* ---- vmm_host_irqdomain_get
call_get(c) ==
  /\ pc[c] = "idle"
  /\ \E hirq \in ConcHirqs :
       loc' = [loc EXCEPT ![c] = [ZeroLoc EXCEPT !.op = "get", !.a = hirq]]
  /\ Goto(c, "get_116")
  /\ UNCHANGED <<heap, live, domains, mapped, regions, last, sbi, lock>>

get_116(c) ==
  /\ pc[c] = "get_116"
  /\ read_lock(c)
  /\ loc' = [loc EXCEPT ![c].i = 1]
  /\ Goto(c, "get_118")
  /\ UNCHANGED <<heap, live, domains, mapped, regions, last, sbi>>

get_118(c) ==
  /\ pc[c] = "get_118"
  /\ IF loc[c].i > Len(domains)
       THEN Goto(c, "get_125") /\ UNCHANGED loc
     ELSE IF get_match(heap[domains[loc[c].i]], loc[c].a)
       THEN /\ loc' = [loc EXCEPT ![c].dom = domains[loc[c].i]]
            /\ Goto(c, "get_120")
     ELSE /\ loc' = [loc EXCEPT ![c].i = @ + 1]
          /\ UNCHANGED pc
  /\ UNCHANGED <<heap, live, domains, mapped, regions, last, sbi, lock>>

\* line 120 without the unlock before the early return
get_120_nounlock(c) ==
  /\ pc[c] = "get_120"
  /\ Return(c, loc[c].dom)
  /\ UNCHANGED <<heap, live, domains, mapped, regions, last, sbi, lock>>

get_120(c) ==
  /\ pc[c] = "get_120"
  /\ read_unlock(c)
  /\ Return(c, loc[c].dom)
  /\ UNCHANGED <<heap, live, domains, mapped, regions, last, sbi>>

get_125(c) ==
  /\ pc[c] = "get_125"
  /\ read_unlock(c)
  /\ Return(c, NULL)
  /\ UNCHANGED <<heap, live, domains, mapped, regions, last, sbi>>

\* ---- vmm_host_irqdomain_match; the caller's fn compares the domain's base
match_fn(d, data) == d.base = data

call_match(c) ==
  /\ pc[c] = "idle"
  /\ \E data \in ConcHirqs :
       loc' = [loc EXCEPT ![c] = [ZeroLoc EXCEPT !.op = "match", !.a = data]]
  /\ Goto(c, "match_69")
  /\ UNCHANGED <<heap, live, domains, mapped, regions, last, sbi, lock>>

match_69(c) ==
  /\ pc[c] = "match_69"
  /\ read_lock(c)
  /\ loc' = [loc EXCEPT ![c].i = 1]
  /\ Goto(c, "match_71")
  /\ UNCHANGED <<heap, live, domains, mapped, regions, last, sbi>>

match_71(c) ==
  /\ pc[c] = "match_71"
  /\ IF loc[c].i > Len(domains)
       THEN Goto(c, "match_78") /\ UNCHANGED loc
     ELSE IF match_fn(heap[domains[loc[c].i]], loc[c].a)
       THEN /\ loc' = [loc EXCEPT ![c].dom = domains[loc[c].i]]
            /\ Goto(c, "match_78")
     ELSE /\ loc' = [loc EXCEPT ![c].i = @ + 1]
          /\ UNCHANGED pc
  /\ UNCHANGED <<heap, live, domains, mapped, regions, last, sbi, lock>>

match_78(c) ==
  /\ pc[c] = "match_78"
  /\ read_unlock(c)
  /\ Return(c, loc[c].dom)
  /\ UNCHANGED <<heap, live, domains, mapped, regions, last, sbi>>

\* ---- vmm_host_irqdomain_debug_dump
call_debug_dump(c) ==
  /\ pc[c] = "idle"
  /\ loc' = [loc EXCEPT ![c] = [ZeroLoc EXCEPT !.op = "debug_dump"]]
  /\ Goto(c, "dump_90")
  /\ UNCHANGED <<heap, live, domains, mapped, regions, last, sbi, lock>>

dump_90(c) ==
  /\ pc[c] = "dump_90"
  /\ read_lock(c)
  /\ loc' = [loc EXCEPT ![c].i = 1]
  /\ Goto(c, "dump_92")
  /\ UNCHANGED <<heap, live, domains, mapped, regions, last, sbi>>

\* one domain of the outer loop, with its inner loop over [base, end)
dump_92(c) ==
  /\ pc[c] = "dump_92"
  /\ IF loc[c].i > Len(domains)
       THEN Goto(c, "dump_108") /\ UNCHANGED loc
       ELSE /\ loc' = [loc EXCEPT ![c].i = @ + 1]
            /\ UNCHANGED pc
  /\ UNCHANGED <<heap, live, domains, mapped, regions, last, sbi, lock>>

dump_108(c) ==
  /\ pc[c] = "dump_108"
  /\ read_unlock(c)
  /\ Return(c, 0)
  /\ UNCHANGED <<heap, live, domains, mapped, regions, last, sbi>>

\* ---- vmm_host_irqdomain_add
call_add_in(c, bases, sizes) ==
  /\ pc[c] = "idle"
  /\ \E base \in bases, size \in sizes :
       loc' = [loc EXCEPT ![c] = [ZeroLoc EXCEPT !.op = "add", !.a = base,
                                                  !.b = size]]
  /\ Goto(c, "add_174")
  /\ UNCHANGED <<heap, live, domains, mapped, regions, last, sbi, lock>>

call_add(c) == call_add_in(c, ConcBases, ConcSizes)

add_174(c) ==
  /\ pc[c] = "add_174"
  /\ IF add_rejects(loc[c].a, loc[c].b)
       THEN Return(c, NULL)
       ELSE Goto(c, "add_180") /\ UNCHANGED loc
  /\ UNCHANGED <<heap, live, domains, mapped, regions, last, sbi, lock>>

add_180(c) ==
  /\ pc[c] = "add_180"
  /\ \E newdomain \in ZallocResults :
       IF newdomain = NULL
         THEN Return(c, NULL) /\ UNCHANGED <<heap, live>>
         ELSE /\ heap' = [heap EXCEPT ![newdomain] = ZeroDomain]
              /\ live' = live \cup {newdomain}
              /\ loc' = [loc EXCEPT ![c].dom = newdomain]
              /\ Goto(c, "add_185")
  /\ UNCHANGED <<domains, mapped, regions, last, sbi, lock>>

add_185(c) ==
  /\ pc[c] = "add_185"
  /\ IF loc[c].a < 0
       THEN \E pos \in AllocRegionResults(loc[c].b) :
              IF pos < 0
                THEN /\ live' = add_unwind(live, loc[c].dom)
                     /\ Return(c, NULL)
                     /\ UNCHANGED regions
                ELSE /\ regions' = regions \cup Range(pos, pos + loc[c].b)
                     /\ loc' = [loc EXCEPT ![c].i = pos]
                     /\ Goto(c, "add_196")
                     /\ UNCHANGED live
       ELSE /\ loc' = [loc EXCEPT ![c].i = loc[c].a]
            /\ Goto(c, "add_196")
            /\ UNCHANGED <<live, regions>>
  /\ UNCHANGED <<heap, domains, mapped, last, sbi, lock>>

\* lines 196-202: the record is filled in before it is linked
add_196(c) ==
  /\ pc[c] = "add_196"
  /\ heap' = [heap EXCEPT ![loc[c].dom] = add_record(loc[c].i, loc[c].b)]
  /\ Goto(c, "add_204")
  /\ UNCHANGED <<live, domains, mapped, regions, last, sbi, lock, loc>>

\* line 204 without taking the lock
add_204_nolock(c) ==
  /\ pc[c] = "add_204"
  /\ Goto(c, "add_205")
  /\ UNCHANGED <<heap, live, domains, mapped, regions, last, sbi, lock, loc>>

add_204(c) ==
  /\ pc[c] = "add_204"
  /\ write_lock(c)
  /\ Goto(c, "add_205")
  /\ UNCHANGED <<heap, live, domains, mapped, regions, last, sbi, loc>>

add_205(c) ==
  /\ pc[c] = "add_205"
  /\ domains' = Append(domains, loc[c].dom)
  /\ Goto(c, "add_206")
  /\ UNCHANGED <<heap, live, mapped, regions, last, sbi, lock, loc>>

add_206(c) ==
  /\ pc[c] = "add_206"
  /\ write_unlock(c)
  /\ Return(c, loc[c].dom)
  /\ UNCHANGED <<heap, live, domains, mapped, regions, last, sbi>>

\* ---- vmm_host_irqdomain_remove
RemovePcs == {"rem_216", "rem_219", "rem_220", "rem_221", "rem_223", "rem_227"}
\* the caller owns the domain it removes: no two cores remove the same one
BeingRemoved == {loc[c].dom : c \in {x \in Cores : pc[x] \in RemovePcs}}

call_remove(c) ==
  /\ pc[c] = "idle"
  /\ \E id \in (ListSet \ BeingRemoved) \cup {NULL} :
       loc' = [loc EXCEPT ![c] = [ZeroLoc EXCEPT !.op = "remove", !.dom = id]]
  /\ Goto(c, "rem_216")
  /\ UNCHANGED <<heap, live, domains, mapped, regions, last, sbi, lock>>

rem_216(c) ==
  /\ pc[c] = "rem_216"
  /\ IF loc[c].dom = NULL
       THEN Return(c, 0)
       ELSE Goto(c, "rem_219") /\ UNCHANGED loc
  /\ UNCHANGED <<heap, live, domains, mapped, regions, last, sbi, lock>>

rem_219(c) ==
  /\ pc[c] = "rem_219"
  /\ write_lock(c)
  /\ Goto(c, "rem_220")
  /\ UNCHANGED <<heap, live, domains, mapped, regions, last, sbi, loc>>

rem_220(c) ==
  /\ pc[c] = "rem_220"
  /\ domains' = list_del(domains, loc[c].dom)
  /\ Goto(c, "rem_221")
  /\ UNCHANGED <<heap, live, mapped, regions, last, sbi, lock, loc>>

rem_221(c) ==
  /\ pc[c] = "rem_221"
  /\ write_unlock(c)
  /\ loc' = [loc EXCEPT ![c].i = heap[loc[c].dom].base]
  /\ Goto(c, "rem_223")
  /\ UNCHANGED <<heap, live, domains, mapped, regions, last, sbi>>

\* a loop that stops at the first dispose call that fails
rem_223_abort(c) ==
  /\ pc[c] = "rem_223"
  /\ IF loc[c].i < heap[loc[c].dom].end
       THEN \E r \in DisposeResults :
              /\ mapped' = IF r = VMM_OK THEN mapped \ {loc[c].i} ELSE mapped
              /\ IF r = VMM_OK
                   THEN loc' = [loc EXCEPT ![c].i = U(@ + 1)] /\ UNCHANGED pc
                   ELSE Goto(c, "rem_227") /\ UNCHANGED loc
       ELSE Goto(c, "rem_227") /\ UNCHANGED <<mapped, loc>>
  /\ UNCHANGED <<heap, live, domains, regions, last, sbi, lock>>

\* a loop whose ++pos is missing
rem_223_noinc(c) ==
  /\ pc[c] = "rem_223"
  /\ IF loc[c].i < heap[loc[c].dom].end
       THEN \E r \in DisposeResults :
              /\ mapped' = IF r = VMM_OK THEN mapped \ {loc[c].i} ELSE mapped
              /\ UNCHANGED <<pc, loc>>
       ELSE Goto(c, "rem_227") /\ UNCHANGED <<mapped, loc>>
  /\ UNCHANGED <<heap, live, domains, regions, last, sbi, lock>>

rem_223(c) ==
  /\ pc[c] = "rem_223"
  /\ IF loc[c].i < heap[loc[c].dom].end
       THEN \E r \in DisposeResults :
              /\ mapped' = IF r = VMM_OK THEN mapped \ {loc[c].i} ELSE mapped
              /\ loc' = [loc EXCEPT ![c].i = U(@ + 1)]
              /\ UNCHANGED pc
       ELSE Goto(c, "rem_227") /\ UNCHANGED <<mapped, loc>>
  /\ UNCHANGED <<heap, live, domains, regions, last, sbi, lock>>

rem_227(c) ==
  /\ pc[c] = "rem_227"
  /\ heap' = [heap EXCEPT ![loc[c].dom] = ZeroDomain]
  /\ live' = live \ {loc[c].dom}
  /\ Return(c, 0)
  /\ UNCHANGED <<domains, mapped, regions, last, sbi, lock>>

NextConc ==
  \E c \in Cores :
    \/ call_get(c) \/ get_116(c) \/ get_118(c) \/ get_120(c) \/ get_125(c)
    \/ call_match(c) \/ match_69(c) \/ match_71(c) \/ match_78(c)
    \/ call_debug_dump(c) \/ dump_90(c) \/ dump_92(c) \/ dump_108(c)
    \/ call_add(c) \/ add_174(c) \/ add_180(c) \/ add_185(c) \/ add_196(c)
    \/ add_204(c) \/ add_205(c) \/ add_206(c)
    \/ call_remove(c) \/ rem_216(c) \/ rem_219(c) \/ rem_220(c) \/ rem_221(c)
    \/ rem_223(c) \/ rem_227(c)

SpecConc == Init /\ [][NextConc]_vars

\* ---- fair scheduling: a core inside a handler keeps executing it.  A core
\* waiting for the lock retries; nothing makes a retry succeed.
Step(c) ==
  \/ get_116(c) \/ get_118(c) \/ get_120(c) \/ get_125(c)
  \/ match_69(c) \/ match_71(c) \/ match_78(c)
  \/ dump_90(c) \/ dump_92(c) \/ dump_108(c)
  \/ add_174(c) \/ add_180(c) \/ add_185(c) \/ add_196(c)
  \/ add_204(c) \/ add_205(c) \/ add_206(c)
  \/ rem_216(c) \/ rem_219(c) \/ rem_220(c) \/ rem_221(c)
  \/ rem_223(c) \/ rem_227(c)

SpecConcFair == SpecConc /\ \A c \in Cores : WF_vars(Step(c))

\* ==================================================================== SpecUse
\* The cores of SpecConc also use the domain pointer that get or match
\* returned to them, after the read lock was released: they call to_hwirq,
\* find_mapping and create_mapping on it, statement by statement.  Of the
\* handlers only create_mapping is recorded in `last`.
UseBases == {0}
UseSizes == {2}
UseHwirqs == {0}
UsePcs == {"hwirq_44", "find_53", "create_140", "create_149"}

\* The callers of SpecUse keep the registry free of overlaps: they add a
\* range only when no domain in the registry and no add in progress holds
\* one of its numbers.
AddPcs == {"add_174", "add_180", "add_185", "add_196", "add_204", "add_205",
           "add_206"}
Claimed ==
  UNION ({Range(heap[id].base, heap[id].end) : id \in ListSet}
         \cup {Range(loc[x].a, loc[x].a + loc[x].b) :
                 x \in {y \in Cores : pc[y] \in AddPcs}})
call_add_disjoint(c) ==
  /\ call_add_in(c, UseBases, UseSizes)
  /\ Range(loc'[c].a, loc'[c].a + loc'[c].b) \cap Claimed = {}

\* the pointer core c holds: the result of its last get or match
Held(c) == IF loc[c].op \in {"get", "match"} THEN loc[c].ret ELSE NULL

\* what a read of a freed record can yield: any contents
GarbageRecords ==
  {ZeroDomain} \cup {add_record(pos, size) :
                       pos \in UseBases, size \in UseSizes}
\* the struct a read of domain->... sees
deref(h, l, domain) == IF domain \in l THEN {h[domain]} ELSE GarbageRecords

\* ---- vmm_host_irqdomain_to_hwirq
call_to_hwirq(c) ==
  /\ pc[c] = "idle"
  /\ Held(c) # NULL
  /\ \E hirq \in ConcHirqs :
       loc' = [loc EXCEPT ![c] = [ZeroLoc EXCEPT !.op = "to_hwirq",
                                    !.dom = Held(c), !.a = hirq]]
  /\ Goto(c, "hwirq_44")
  /\ UNCHANGED <<heap, live, domains, mapped, regions, last, sbi, lock>>

hwirq_44(c) ==
  /\ pc[c] = "hwirq_44"
  /\ \E d \in deref(heap, live, loc[c].dom) :
       Return(c, to_hwirq(d, loc[c].a))
  /\ UNCHANGED <<heap, live, domains, mapped, regions, last, sbi, lock>>

\* ---- vmm_host_irqdomain_find_mapping
call_find_mapping(c) ==
  /\ pc[c] = "idle"
  /\ Held(c) # NULL
  /\ \E hwirq \in UseHwirqs :
       loc' = [loc EXCEPT ![c] = [ZeroLoc EXCEPT !.op = "find_mapping",
                                    !.dom = Held(c), !.a = hwirq]]
  /\ Goto(c, "find_53")
  /\ UNCHANGED <<heap, live, domains, mapped, regions, last, sbi, lock>>

find_53(c) ==
  /\ pc[c] = "find_53"
  /\ \E d \in deref(heap, live, loc[c].dom) :
       Return(c, find_mapping(d, loc[c].a, mapped))
  /\ UNCHANGED <<heap, live, domains, mapped, regions, last, sbi, lock>>

\* ---- vmm_host_irqdomain_create_mapping
call_create_mapping(c) ==
  /\ pc[c] = "idle"
  /\ Held(c) # NULL
  /\ \E hwirq \in UseHwirqs :
       loc' = [loc EXCEPT ![c] = [ZeroLoc EXCEPT !.op = "create_mapping",
                                    !.dom = Held(c), !.a = hwirq]]
  /\ Goto(c, "create_140")
  /\ UNCHANGED <<heap, live, domains, mapped, regions, last, sbi, lock>>

\* lines 137-147: the bound test and the lookup of an existing mapping
create_140(c) ==
  /\ pc[c] = "create_140"
  /\ \E d \in deref(heap, live, loc[c].dom) :
       LET found == find_mapping(d, loc[c].a, mapped)
           me == [Idle EXCEPT !.op = "create_mapping", !.dom = loc[c].dom,
                              !.a = loc[c].a]
       IN
       IF loc[c].a > d.count
         THEN /\ Return(c, VMM_ENOTAVAIL)
              /\ last' = [me EXCEPT !.ret = VMM_ENOTAVAIL]
       ELSE IF found >= 0
         THEN /\ Return(c, found)
              /\ last' = [me EXCEPT !.ret = found]
       ELSE Goto(c, "create_149") /\ UNCHANGED <<loc, last>>
  /\ UNCHANGED <<heap, live, domains, mapped, regions, sbi, lock>>

\* lines 149-151: the call of the external allocator and the return
create_149(c) ==
  /\ pc[c] = "create_149"
  /\ \E d \in deref(heap, live, loc[c].dom) :
       LET n == U(d.base + loc[c].a) IN
       \E hirq \in CreateResults(n) :
         /\ mapped' = IF hirq \in ExtErrors THEN mapped ELSE mapped \cup {n}
         /\ last' = [Idle EXCEPT !.op = "create_mapping", !.dom = loc[c].dom,
                       !.a = loc[c].a,
                       !.ret = create_return(d, loc[c].a, hirq),
                       !.calls = <<Call("create_mapping", n, hirq)>>,
                       !.delta = mapped' \ mapped]
         /\ Return(c, create_return(d, loc[c].a, hirq))
  /\ UNCHANGED <<heap, live, domains, regions, sbi, lock>>

NextUse ==
  \E c \in Cores :
    \/ call_get(c) \/ get_116(c) \/ get_118(c) \/ get_120(c) \/ get_125(c)
    \/ call_match(c) \/ match_69(c) \/ match_71(c) \/ match_78(c)
    \/ call_add_disjoint(c) \/ add_174(c) \/ add_180(c) \/ add_185(c) \/ add_196(c)
    \/ add_204(c) \/ add_205(c) \/ add_206(c)
    \/ call_remove(c) \/ rem_216(c) \/ rem_219(c) \/ rem_220(c) \/ rem_221(c)
    \/ rem_223(c) \/ rem_227(c)
    \/ call_to_hwirq(c) \/ hwirq_44(c)
    \/ call_find_mapping(c) \/ find_53(c)
    \/ call_create_mapping(c) \/ create_140(c) \/ create_149(c)

SpecUse == Init /\ [][NextUse]_vars

\* ==================================================================== SpecSbi
\* SBI extension registry and ecall dispatcher.  cpu_vcpu_sbi.h declares the
\* descriptor and the two routines; their bodies follow the design document.
SBI_SUCCESS == 0
SBI_ERR_FAILURE == -1
SBI_ERR_NOT_SUPPORTED == -2
\* length of the ecall instruction
EcallLen == 4

ExtIds == 0..MaxExtId
\* struct cpu_vcpu_sbi_extension; the handler is identified by the entry
Extensions ==
  {[extid_start |-> s, extid_end |-> e] : s \in ExtIds, e \in ExtIds}
\* both ranges hold a common extension ID
ExtOverlap(x, y) ==
  \E n \in ExtIds : /\ x.extid_start <= n /\ n <= x.extid_end
                    /\ y.extid_start <= n /\ n <= y.extid_end
\* the tables boot code may register: non-empty, pairwise disjoint ranges
Tables ==
  {t \in UNION {[1..n -> Extensions] : n \in 0..MaxExts} :
     /\ \A i \in DOMAIN t : t[i].extid_start <= t[i].extid_end
     /\ \A i \in DOMAIN t, j \in DOMAIN t : i < j => ~ExtOverlap(t[i], t[j])}

\* a range test that leaves out extid_end
sbi_match_halfopen(ext, extid) ==
  ext.extid_start <= extid /\ extid < ext.extid_end

\* the range test of cpu_vcpu_sbi_find_extension
sbi_match(ext, extid) == ext.extid_start <= extid /\ extid <= ext.extid_end

RECURSIVE sbi_scan(_, _, _)
sbi_scan(table, i, extid) ==
  IF i > Len(table) THEN NULL
  ELSE IF sbi_match(table[i], extid) THEN i
  ELSE sbi_scan(table, i + 1, extid)

cpu_vcpu_sbi_find_extension(table, extid) == sbi_scan(table, 1, extid)

\* the registers of a vCPU that trapped on an ecall
EcallRegs ==
  {[ZeroVcpu EXCEPT !.a7 = extid, !.a0 = a0, !.sepc = sepc] :
     extid \in ExtIds, a0 \in {0, 1}, sepc \in {0, EcallLen}}
\* what a handler hands back: status, output value, whether it asks for a trap
HandlerResults ==
  {[ret |-> r, out_val |-> v, scause |-> t] :
     r \in {SBI_SUCCESS, SBI_ERR_FAILURE}, v \in {0, 1}, t \in BOOLEAN}

\* a write-back that leaves the program counter on the ecall
sbi_writeback_nopc(regs, ret, out_val) ==
  [regs EXCEPT !.a0 = ret, !.a1 = out_val]

\* the non-trapping path: status and output value written, pc advanced
sbi_writeback(regs, ret, out_val) ==
  [regs EXCEPT !.a0 = ret, !.a1 = out_val, !.sepc = @ + EcallLen]

\* boot: the extension table is set up once and never changes
sbi_register ==
  /\ ~sbi.booted
  /\ \E t \in Tables : sbi' = [sbi EXCEPT !.table = t, !.booted = TRUE]
  /\ UNCHANGED irqvars

sbi_find ==
  /\ sbi.booted
  /\ \E extid \in ExtIds :
       sbi' = [SbiInit EXCEPT !.table = sbi.table, !.booted = TRUE,
                 !.op = "find", !.extid = extid,
                 !.ret = cpu_vcpu_sbi_find_extension(sbi.table, extid)]
  /\ UNCHANGED irqvars

cpu_vcpu_sbi_ecall ==
  /\ sbi.booted
  /\ \E regs \in EcallRegs :
       LET ext == cpu_vcpu_sbi_find_extension(sbi.table, regs.a7)
           me == [SbiInit EXCEPT !.table = sbi.table, !.booted = TRUE,
                    !.op = "ecall", !.extid = regs.a7, !.pre = regs,
                    !.ret = VMM_OK]
       IN
       IF ext = NULL
         THEN sbi' = [me EXCEPT
                 !.vcpu = sbi_writeback(regs, SBI_ERR_NOT_SUPPORTED, regs.a1)]
         ELSE \E h \in HandlerResults :
                IF h.scause
                  THEN sbi' = [me EXCEPT !.handled = ext, !.trap = TRUE,
                                         !.vcpu = regs]
                  ELSE sbi' = [me EXCEPT !.handled = ext,
                          !.vcpu = sbi_writeback(regs, h.ret, h.out_val)]
  /\ UNCHANGED irqvars

NextSbi == sbi_register \/ sbi_find \/ cpu_vcpu_sbi_ecall

SpecSbi == Init /\ [][NextSbi]_vars

\* ===================================================================== claims
LinkedDomains == {heap[id] : id \in ListSet}

\* C1: every two distinct domains in the registry have non-overlapping
\* ranges [base, end).
C1_Disjoint ==
  \A i, j \in 1..Len(domains) :
    i # j => Range(heap[domains[i]].base, heap[domains[i]].end)
               \cap Range(heap[domains[j]].base, heap[domains[j]].end) = {}

\* C2: the list is linked or unlinked only while the write lock is held with
\* no reader inside; a writer and a reader are never inside together; every
\* linked domain is allocated and fully populated, and its record does not
\* change while it stays linked. (Several readers may be inside: C2_Witness.)
C2_Atomic ==
  [][/\ domains' # domains =>
          (lock.writer # 0 /\ lock.readers = {} /\ lock' = lock)
     /\ ~(lock'.writer # 0 /\ lock'.readers # {})
     /\ \A i \in 1..Len(domains') :
          /\ domains'[i] \in live'
          /\ heap'[domains'[i]].set = AllFields
          /\ domains'[i] \in ListSet => heap'[domains'[i]] = heap[domains'[i]]
    ]_vars

\* two readers traverse a non-empty registry at the same time
C2_Witness ==
  /\ Cardinality(lock.readers) >= 2
  /\ domains # <<>>
  /\ \E c \in Cores : pc[c] = "get_118" /\ loc[c].i <= Len(domains)

\* C3: after remove(domain) returned, find_mapping reports no mapping for
\* every hwirq in 0..count-1 of the removed domain, whether or not a disposal
\* failed.
C3_RemoveClearsRange ==
  (last.op = "remove" /\ last.dom # NULL) =>
    \A hwirq \in 0..(last.b - 1) :
      find_mapping([ZeroDomain EXCEPT !.base = last.a, !.count = last.b],
                   hwirq, mapped) < 0

\* C4: a create_mapping(domain, hwirq) that follows a create_mapping(domain,
\* hwirq) which returned a host IRQ number, with no dispose in between,
\* returns the same host IRQ number.
C4_CreateTwice ==
  [][(/\ last.op = "create_mapping" /\ last.ret >= 0
      /\ last'.op = "create_mapping"
      /\ last'.dom = last.dom /\ last'.a = last.a)
     => last'.ret = last.ret]_vars

\* a create_mapping that found the mapping of an earlier call and returned it
C4_Witness ==
  /\ last.op = "create_mapping" /\ last.pre /\ last.calls = NoCall
  /\ last.ret = heap[last.dom].base + last.a

\* C5: hwirq_from_hirq(domain, hirq) returns hirq - base when
\* base <= hirq <= end (end included) and NotAvailable when hirq < base or
\* hirq > end.
C5_ToHwirq ==
  last.op = "to_hwirq" =>
    LET d == heap[last.dom] IN
    /\ (d.base <= last.a /\ last.a <= d.end) => last.ret = last.a - d.base
    /\ (last.a < d.base \/ last.a > d.end) => last.ret = VMM_ENOTAVAIL

\* hwirq_from_hirq answered for hirq = end
C5_Witness ==
  /\ last.op = "to_hwirq" /\ last.a = heap[last.dom].end
  /\ heap[last.dom].base < heap[last.dom].end
  /\ last.ret = heap[last.dom].count

\* some domain of the registry has base < hirq < end
Owned(hirq) ==
  \E id \in ListSet : heap[id].base < hirq /\ hirq < heap[id].end

GetPcs == {"get_116", "get_118", "get_120", "get_125"}
\* the first domain in list order with base < hirq < end, NULL when none
FirstOwner(hirq) ==
  IF Owned(hirq)
    THEN domains[CHOOSE i \in 1..Len(domains) :
           /\ heap[domains[i]].base < hirq /\ hirq < heap[domains[i]].end
           /\ \A j \in 1..(i - 1) :
                ~(heap[domains[j]].base < hirq /\ hirq < heap[domains[j]].end)]
    ELSE NULL

\* C6: get_domain_for(hirq) returns the first domain in registry order with
\* base < hirq < end and NotFound (NULL) when there is none; it has released
\* the read lock when it returns, on both paths, and no step of it changes
\* the registry.
C6_Get ==
  [][\A c \in Cores :
       /\ (pc[c] \in GetPcs /\ pc'[c] = "idle") =>
            /\ loc'[c].ret = FirstOwner(loc[c].a)
            /\ c \in lock.readers /\ c \notin lock'.readers
       /\ ((pc[c] \in GetPcs \/ pc'[c] \in GetPcs)
           /\ (pc'[c] # pc[c] \/ loc'[c] # loc[c])) =>
            (domains' = domains /\ heap' = heap)
    ]_vars

\* get_domain_for returned the first of two domains that both contain hirq
C6_Witness ==
  \E c \in Cores :
    /\ pc[c] = "idle" /\ loc[c].op = "get"
    /\ Len(domains) = 2 /\ loc[c].ret = domains[1]
    /\ \A i \in 1..2 : heap[domains[i]].base < loc[c].a
                       /\ loc[c].a < heap[domains[i]].end

\* C7: dispose_mapping(hirq) fails with NotAvailable, calls no allocator and
\* changes no mapping when no domain owns hirq; otherwise it calls the
\* allocator's dispose on exactly hirq and returns the allocator's result.
C7_Dispose ==
  last.op = "dispose_mapping" =>
    /\ ~Owned(last.a) =>
         (last.ret = VMM_ENOTAVAIL /\ last.calls = NoCall /\ last.delta = {})
    /\ Owned(last.a) =>
         (/\ Len(last.calls) = 1
          /\ last.calls[1].name = "dispose_mapping"
          /\ last.calls[1].arg = last.a
          /\ last.ret = last.calls[1].res
          /\ last.delta \subseteq {last.a})

\* dispose_mapping reached the allocator, which removed the mapping
C7_Witness ==
  /\ last.op = "dispose_mapping" /\ Owned(last.a)
  /\ last.ret = VMM_OK /\ last.delta = {last.a}

\* C8: add with an explicit base >= 0 is rejected for capacity exactly when
\* base + size > capacity, and every domain added with an explicit base has
\* end <= capacity.
C8_CapacityExact ==
  (last.op = "add" /\ last.a >= 0) =>
    /\ (last.a + last.b > CONFIG_HOST_IRQ_COUNT) =>
         (last.ret = NULL /\ last.calls = NoCall)
    /\ (last.a + last.b <= CONFIG_HOST_IRQ_COUNT) => last.calls # NoCall
    /\ last.ret # NULL => heap[last.ret].end <= CONFIG_HOST_IRQ_COUNT

\* C9: find_mapping fails when hwirq > count; otherwise it returns
\* base + hwirq when the interrupt registry has an entry there, and else a
\* value distinct from the one returned for the boundary failure.
C9_FindMappingDistinct ==
  last.op = "find_mapping" =>
    LET d == heap[last.dom]
        boundary == find_mapping(d, d.count + 1, mapped)
    IN
    /\ last.a > d.count => last.ret < 0
    /\ (last.a <= d.count /\ (d.base + last.a) \in mapped) =>
         last.ret = d.base + last.a
    /\ (last.a <= d.count /\ (d.base + last.a) \notin mapped) =>
         (last.ret < 0 /\ last.ret # boundary)

\* C10: create_mapping fails with NotAvailable without calling the allocator
\* when the domain is absent or hwirq > count; when no mapping exists yet it
\* calls the allocator for base + hwirq and returns base + hwirq if the
\* allocator succeeds and the allocator's error value if it fails.
C10_Create ==
  last.op = "create_mapping" =>
    LET absent == last.dom = NULL
        d == IF absent THEN ZeroDomain ELSE heap[last.dom]
    IN
    /\ (absent \/ last.a > d.count) =>
         (last.ret = VMM_ENOTAVAIL /\ last.calls = NoCall /\ last.delta = {})
    /\ (~absent /\ last.a <= d.count /\ ~last.pre) =>
         /\ Len(last.calls) = 1
         /\ last.calls[1].name = "create_mapping"
         /\ last.calls[1].arg = d.base + last.a
         /\ last.calls[1].res >= 0 => last.ret = d.base + last.a
         /\ last.calls[1].res < 0 => last.ret = last.calls[1].res

\* create_mapping called the allocator, which failed
C10_Witness ==
  /\ last.op = "create_mapping" /\ last.dom # NULL /\ ~last.pre
  /\ Len(last.calls) = 1 /\ last.calls[1].res \in ExtErrors
  /\ last.ret = last.calls[1].res

\* ------------------------------------------------------------------------ C11
\* C11: on a table of pairwise disjoint ranges find_extension(extid) returns
\* the one entry with extid_start <= extid <= extid_end, both bounds
\* inclusive, and not-found when no entry's range holds extid.
C11_FindExtension ==
  sbi.op = "find" =>
    LET holds == {i \in DOMAIN sbi.table :
                    /\ sbi.table[i].extid_start <= sbi.extid
                    /\ sbi.extid <= sbi.table[i].extid_end}
    IN /\ Cardinality(holds) <= 1
       /\ holds = {} => sbi.ret = NULL
       /\ holds # {} => holds = {sbi.ret}

\* a two-entry table is asked for the upper bound of its second range, a
\* range of more than one ID
C11_Witness ==
  /\ sbi.op = "find"
  /\ Len(sbi.table) = 2
  /\ sbi.ret = 2
  /\ sbi.extid = sbi.table[2].extid_end
  /\ sbi.table[2].extid_start < sbi.extid

\* ------------------------------------------------------------------------ C12
\* C12: an ecall whose extension ID is in no registered range invokes no
\* handler, writes the negative not-supported status to the result register,
\* advances the program counter past the ecall, redirects no trap and
\* returns VMM_OK to its caller.
C12_Unsupported ==
  (/\ sbi.op = "ecall"
   /\ \A i \in DOMAIN sbi.table :
        ~(sbi.table[i].extid_start <= sbi.extid
          /\ sbi.extid <= sbi.table[i].extid_end))
  => /\ sbi.handled = NULL
     /\ sbi.vcpu.a0 = SBI_ERR_NOT_SUPPORTED
     /\ sbi.vcpu.a0 < 0
     /\ sbi.vcpu.sepc = sbi.pre.sepc + EcallLen
     /\ ~sbi.trap
     /\ sbi.ret = VMM_OK

\* an ecall on a non-empty table with an ID above every registered range
C12_Witness ==
  /\ sbi.op = "ecall"
  /\ sbi.table # <<>>
  /\ \A i \in DOMAIN sbi.table : sbi.table[i].extid_end < sbi.extid
  /\ sbi.vcpu.a0 = SBI_ERR_NOT_SUPPORTED

\* ------------------------------------------------------------------------ C14
\* C14: an add that fails (capacity test, vmm_zalloc, or no region for an
\* auto-assigned base) leaves the registry as it was, same domains in the
\* same order, and leaves no record allocated; an add that succeeds appends
\* the new domain at the tail of the registry and changes nothing before it.
C14_AddFrame ==
  [][last'.op = "add" =>
       IF last'.ret = NULL
         THEN domains' = domains /\ live' = live /\ heap' = heap
         ELSE /\ last'.ret \notin live
              /\ live' = live \cup {last'.ret}
              /\ domains' = Append(domains, last'.ret)]_vars

\* an add with an auto-assigned base failed after its record was allocated,
\* with a domain in the registry
C14_Witness ==
  /\ last.op = "add"
  /\ last.ret = NULL
  /\ Len(last.calls) = 3
  /\ last.calls[3].name = "free"
  /\ domains # <<>>

\* ------------------------------------------------------------------------ C15
\* C15: every domain in the registry has end = base + count as mathematical
\* integers, hence base <= end: no accepted add leaves a domain whose end
\* wrapped around.
C15_EndNoWrap ==
  \A id \in ListSet :
    /\ heap[id].end = heap[id].base + heap[id].count
    /\ heap[id].base <= heap[id].end

\* ------------------------------------------------------------------------ C17
\* C17: a host IRQ number returned by a successful create_mapping on a domain
\* in the registry is found by vmm_host_irqdomain_get, which returns that
\* domain, so that dispose_mapping on the number reaches the external
\* allocator instead of returning VMM_ENOTAVAIL.
C17_CreateThenDispose ==
  (/\ last.op = "create_mapping"
   /\ last.ret >= 0
   /\ last.dom \in ListSet
   /\ heap[last.dom].end = heap[last.dom].base + heap[last.dom].count)
  => irqdomain_get(heap, domains, last.ret) = last.dom

\* ------------------------------------------------------------------------ C18
\* C18: a host IRQ number create_mapping returns for a domain D, found or
\* newly created, lies in D's own range [D.base, D.end).  Stated for domains
\* whose end did not wrap (see C15).
C18_InRange ==
  (/\ last.op = "create_mapping"
   /\ last.ret >= 0
   /\ heap[last.dom].end = heap[last.dom].base + heap[last.dom].count)
  => /\ heap[last.dom].base <= last.ret
     /\ last.ret < heap[last.dom].end

\* ------------------------------------------------------------------------ C13
\* C13: remove on a non-null domain unlinks it while holding the write
\* lock; then, the lock released and the domain out of the registry, it
\* calls dispose once for each slot of [base, end), starting at base and
\* going up by one whatever a dispose call returned; it leaves the loop only
\* at end, and only then frees the record, which was allocated until then.
\* remove on a null domain returns at once and changes nothing.
C13_RemoveOrder ==
  [][\A c \in Cores :
       LET d == loc[c].dom
           step == pc'[c] # pc[c] \/ loc'[c] # loc[c]
       IN
       (pc[c] \in RemovePcs /\ step) =>
         /\ (pc[c] = "rem_216" /\ d = NULL) =>
              /\ pc'[c] = "idle"
              /\ UNCHANGED <<heap, live, domains, mapped, regions, lock>>
         /\ domains' # domains =>
              /\ pc[c] = "rem_220"
              /\ lock.writer = c /\ lock' = lock
              /\ domains' = list_del(domains, d)
              /\ UNCHANGED <<heap, live, mapped>>
         /\ (pc[c] = "rem_221" /\ pc'[c] = "rem_223") =>
              /\ d \notin ListSet
              /\ lock'.writer = 0
              /\ loc'[c].i = heap[d].base
         /\ (pc[c] = "rem_223" /\ pc'[c] = "rem_223") =>
              /\ d \notin ListSet /\ d \in live /\ lock.writer # c
              /\ heap[d].base <= loc[c].i /\ loc[c].i < heap[d].end
              /\ loc'[c].i = loc[c].i + 1
              /\ mapped' \in {mapped, mapped \ {loc[c].i}}
              /\ UNCHANGED <<heap, live, domains>>
         /\ pc'[c] = "rem_227" =>
              /\ pc[c] = "rem_223"
              /\ loc[c].i = heap[d].end
              /\ UNCHANGED <<heap, live, domains, mapped>>
         /\ live' # live =>
              /\ pc[c] = "rem_227" /\ pc'[c] = "idle"
              /\ d \in live /\ live' = live \ {d}
              /\ UNCHANGED <<domains, mapped>>]_vars

\* a remove of a two-slot domain has finished its loop and is about to free
\* the record while another domain is in the registry
C13_Witness ==
  \E c \in Cores :
    /\ pc[c] = "rem_227"
    /\ heap[loc[c].dom].count = 2
    /\ loc[c].i = heap[loc[c].dom].base + 2
    /\ loc[c].dom \notin ListSet
    /\ domains # <<>>

LockWait == {"get_116", "match_69", "dump_90", "add_204", "rem_219"}

C19_NoUseAfterFree ==
  [][\A c \in Cores :
       (pc[c] \in UsePcs /\ pc'[c] # pc[c]) => loc[c].dom \in live]_vars

\* ------------------------------------------------------------------------ C20
\* C20: the disposal loop of remove(d) never disposes a mapping that was
\* created through another domain, one that is in the registry.
C20_DisposesOwnOnly ==
  [][\A c \in Cores :
       (pc[c] = "rem_223" /\ loc[c].i \in mapped /\ loc[c].i \notin mapped')
       => ~(/\ last.op = "create_mapping"
            /\ last.delta = {loc[c].i}
            /\ last.dom # loc[c].dom
            /\ last.dom \in ListSet)]_vars

====
